---- MODULE Spec2Model ----
(***************************************************************************)
(* A model of FunGAP's run_augustus.py and run_blastp.py.                  *)
(*                                                                         *)
(*   Spec        parse_augustus: the line loop over augustus.gff3 (one     *)
(*               step per line) followed by the FASTA writer (open, sort,  *)
(*               one step per header and per body row).                    *)
(*   SpecLines   the same over shorter files whose lines may also carry a  *)
(*               marker inside their data.                                 *)
(*   SpecWriter  the FASTA writer alone, started from bounded mappings.    *)
(*   SpecTool    the two drivers and their external commands over a small  *)
(*               file system, several invocations in a row.                *)
(*                                                                         *)
(* Python strings are TLA+ strings (sequences of characters); the regular  *)
(* expressions and str methods the code uses are operators on them.        *)
(***************************************************************************)
EXTENDS Integers, Sequences, FiniteSets, TLC

VARIABLES
    \* parse_augustus, the line loop
    pc,             \* position in parse_augustus
    prot_tag,       \* the continuation flag (0 or 1)
    transcript_id,  \* the current transcript identifier, Unbound before the first
    d_seq,          \* the mapping, in insertion order: <<[id, seq], ...>>
    nRead,          \* lines consumed so far
    lastRaw,        \* the raw line consumed last
    lastLine,       \* the element import_file made of it
    lastAppended,   \* the payloads appended to d_seq while processing it
    error,          \* the exception that ended the run, or "none"
    \* the FASTA writer
    faa,            \* augustus.faa: [exists, lines]
    d_seq_sorted,   \* the sorted item list
    wIdx,           \* index of the entry being written
    wI,             \* the row loop's i
    \* bookkeeping of the input consumed so far (not program state)
    gPhase,         \* "none" | "id" | "open" | "closed": where the input is in a transcript block
    gId,            \* identifier of the last transcript-id line
    gBase,          \* what was accumulated under gId when its block opened
    gData,          \* concatenation of the data of the block's lines so far
    gCont,          \* continuation lines in the block so far
    gBlocks,        \* identifiers that have had a block
    gIds,           \* identifiers seen on transcript-id lines
    gWellFormed,    \* the input so far is well formed
    gOnlyNoise,     \* every line so far was a noise line
    gOpen,          \* a sequence-start line came and no line ending in "]" since
    \* the tool invoker and the drivers
    tpc,            \* position in the running driver, "idle" between invocations
    fs,             \* the file system: path -> "absent" | "empty" | "nonempty"
    events,         \* debug messages logged, commands executed and exits, in order
    trace,          \* one record per existence check made by a tool step
    nInv,           \* invocations started so far
    inv             \* the driver of the running invocation

pvars == <<pc, prot_tag, transcript_id, d_seq, nRead, lastRaw, lastLine, lastAppended, error>>
wvars == <<faa, d_seq_sorted, wIdx, wI>>
gvars == <<gPhase, gId, gBase, gData, gCont, gBlocks, gIds, gWellFormed, gOnlyNoise, gOpen>>
tvars == <<tpc, fs, events, trace, nInv, inv>>
vars == <<pvars, wvars, gvars, tvars>>

(***************************************************************************)
(* Bounds of the model.                                                    *)
(***************************************************************************)
MaxLines == 5
MaxEntries == 3
MaxRows == 2
MaxInvocations == 3
MaxOddLines == 4

(***************************************************************************)
(* Strings.                                                                *)
(***************************************************************************)
CharAt(s, i) == SubSeq(s, i, i)

\* s[i:i+len(p)] == p
MatchAt(s, p, i) == /\ i >= 1
                    /\ i + Len(p) - 1 <= Len(s)
                    /\ SubSeq(s, i, i + Len(p) - 1) = p

\* re.search(p, s) for a pattern p without metacharacters
Contains(s, p) == \E i \in 1..(Len(s) - Len(p) + 1) : MatchAt(s, p, i)

StartsWith(s, p) == MatchAt(s, p, 1)

EndsWith(s, p) == MatchAt(s, p, Len(s) - Len(p) + 1)

RECURSIVE ReplaceFrom(_, _, _, _)
ReplaceFrom(s, old, new, i) ==
    IF i > Len(s) THEN ""
    ELSE IF MatchAt(s, old, i)
         THEN new \o ReplaceFrom(s, old, new, i + Len(old))
         ELSE CharAt(s, i) \o ReplaceFrom(s, old, new, i + 1)

\* str.replace(old, new): every occurrence, left to right, not overlapping
Replace(s, old, new) == ReplaceFrom(s, old, new, 1)

Whitespace == {" ", "\t", "\n", "\r", "\f"}

RECURSIVE RStrip(_)
\* str.rstrip(): all trailing whitespace goes
RStrip(s) ==
    IF Len(s) > 0 /\ CharAt(s, Len(s)) \in Whitespace
    THEN RStrip(SubSeq(s, 1, Len(s) - 1))
    ELSE s

Digits == {"0", "1", "2", "3", "4", "5", "6", "7", "8", "9"}

DigitVal(c) ==
    CASE c = "0" -> 0 [] c = "1" -> 1 [] c = "2" -> 2 [] c = "3" -> 3
      [] c = "4" -> 4 [] c = "5" -> 5 [] c = "6" -> 6 [] c = "7" -> 7
      [] c = "8" -> 8 [] c = "9" -> 9

RECURSIVE ParseInt(_)
\* int(s) for a string of decimal digits
ParseInt(s) ==
    IF Len(s) = 0 THEN 0
    ELSE 10 * ParseInt(SubSeq(s, 1, Len(s) - 1)) + DigitVal(CharAt(s, Len(s)))

AllDigits(s, a, b) == \A i \in a..b : CharAt(s, i) \in Digits

(***************************************************************************)
(* import_file: the lines of the file, each rstripped.                     *)
(***************************************************************************)
\* ImportLine that takes off the line terminator alone
ImportLineChomp(raw) == IF EndsWith(raw, "\n") THEN SubSeq(raw, 1, Len(raw) - 1) ELSE raw

ImportLine(raw) == RStrip(raw)

(***************************************************************************)
(* parse_augustus: the regular expressions.                                *)
(***************************************************************************)
Prefix == "# protein sequence = ["
HashSpace == "# "
TranscriptTag == "\ttranscript\t"

\* the ten patterns of the if/elif chain, each searched anywhere in the line
NoisePatterns ==
    << "# Evidence for and against this transcript:",
       "# % of transcript supported by hints",
       "# CDS exons",
       "# CDS introns",
       "# 5'UTR exons and introns:",
       "# 3'UTR exons and introns:",
       "# hint groups fully obeyed:",
       "# incompatible hint groups:",
       "#      E:",
       "#     RM:" >>

\* IsNoise with the last pattern of the chain forgotten
IsNoiseNine(line) == \E k \in 1..(Len(NoisePatterns) - 1) : Contains(line, NoisePatterns[k])

IsNoise(line) == \E k \in 1..Len(NoisePatterns) : Contains(line, NoisePatterns[k])

\* positions j where "ID=" stands, at least one character after some
\* "\ttranscript\t" and followed by a character other than ";"
IdPositions(line) ==
    { j \in 1..Len(line) :
        /\ MatchAt(line, "ID=", j)
        /\ j + 3 <= Len(line)
        /\ CharAt(line, j + 3) # ";"
        /\ \E i \in 1..j : /\ MatchAt(line, TranscriptTag, i)
                           /\ i + Len(TranscriptTag) + 1 <= j }

SetMax(S) == CHOOSE x \in S : \A y \in S : y <= x

\* last index of the run of characters other than ";" that starts at from
RunEnd(line, from) ==
    SetMax({ k \in from..Len(line) : \A m \in from..k : CharAt(line, m) # ";" })

\* reg_transcript.search(line): r'\ttranscript\t.+ID=([^;]+)'; the greedy .+
\* stops at the last "ID=" that can be followed by the group
RegTranscript(line) ==
    IF IdPositions(line) = {}
    THEN [matched |-> FALSE, group1 |-> ""]
    ELSE LET j == SetMax(IdPositions(line))
         IN  [matched |-> TRUE, group1 |-> SubSeq(line, j + 3, RunEnd(line, j + 3))]

\* reg_prot_start.search(line): r'^# protein sequence = \[(\S+)\]*'
RegProtStart(line) ==
    /\ StartsWith(line, Prefix)
    /\ Len(line) > Len(Prefix)
    /\ CharAt(line, Len(Prefix) + 1) \notin Whitespace

\* RegProtEnd without the "$" anchor
RegProtEndAnywhere(line) == Contains(line, "]")

\* reg_prot_end.search(line): r'\]$'
RegProtEnd(line) == EndsWith(line, "]")

(***************************************************************************)
(* parse_augustus: the mapping d_seq = defaultdict(str), insertion ordered. *)
(***************************************************************************)
Unbound == ""      \* transcript_id before its first assignment (an id is never empty)

HasKey(d, k) == \E i \in 1..Len(d) : d[i].id = k

Lookup(d, k) == IF HasKey(d, k) THEN d[CHOOSE i \in 1..Len(d) : d[i].id = k].seq ELSE ""

\* DictAdd that never finds the key
DictAddAlwaysNew(d, k, v) == Append(d, [id |-> k, seq |-> v])

\* d[k] += v
DictAdd(d, k, v) ==
    IF HasKey(d, k)
    THEN [i \in 1..Len(d) |-> IF d[i].id = k THEN [id |-> k, seq |-> d[i].seq \o v] ELSE d[i]]
    ELSE Append(d, [id |-> k, seq |-> v])

Keys(d) == { d[i].id : i \in 1..Len(d) }

(***************************************************************************)
(* parse_augustus: one iteration of the line loop.  st is the record       *)
(* [prot_tag, transcript_id, d_seq, appended, error]; appended lists the   *)
(* payloads this iteration added to d_seq.                                 *)
(***************************************************************************)
\* d_seq[transcript_id] += prot_seq; an unbound transcript_id raises
AddSeq(st, prot_seq) ==
    IF st.error # "none" THEN st
    ELSE IF st.transcript_id = Unbound THEN [st EXCEPT !.error = "UnboundLocalError"]
    ELSE [st EXCEPT !.d_seq = DictAdd(st.d_seq, st.transcript_id, prot_seq),
                    !.appended = Append(st.appended, prot_seq)]

\* lines 167-168: the payload of a line that ends the block
EndSeq(line) == Replace(Replace(Replace(line, Prefix, ""), HashSpace, ""), "]", "")

\* ContSeq that leaves the "# " marker in
ContSeqKeepsMarker(line) == Replace(line, Prefix, "")

\* lines 173-175: the payload of a line inside the block
ContSeq(line) == Replace(Replace(line, Prefix, ""), HashSpace, "")

\* lines 136-159 and the two payloads: all that the iteration derives from
\* the text of the line alone
Scan(line) ==
    [ line |-> line,
      noise |-> IsNoise(line),
      m_transcript |-> RegTranscript(line),
      m_prot_start |-> RegProtStart(line),
      m_prot_end |-> RegProtEnd(line),
      end_seq |-> EndSeq(line),
      cont_seq |-> ContSeq(line) ]

\* IdOrStartBranch that keeps the first identifier it met
IdOrStartBranchKeepsFirst(st, m) ==
    IF m.m_transcript.matched
    THEN IF st.transcript_id = Unbound
         THEN [st EXCEPT !.transcript_id = m.m_transcript.group1]
         ELSE st
    ELSE IF m.m_prot_start THEN [st EXCEPT !.prot_tag = 1] ELSE st

\* lines 161-164
IdOrStartBranch(st, m) ==
    IF m.m_transcript.matched
    THEN [st EXCEPT !.transcript_id = m.m_transcript.group1]
    ELSE IF m.m_prot_start THEN [st EXCEPT !.prot_tag = 1] ELSE st

\* EndBranch that does not clear the continuation flag
EndBranchKeepsFlag(st, m) == IF m.m_prot_end THEN AddSeq(st, m.end_seq) ELSE st

\* lines 166-170
EndBranch(st, m) ==
    IF m.m_prot_end
    THEN IF AddSeq(st, m.end_seq).error # "none"
         THEN AddSeq(st, m.end_seq)
         ELSE [AddSeq(st, m.end_seq) EXCEPT !.prot_tag = 0]
    ELSE st

\* lines 172-176
ContBranch(st, m) ==
    IF st.error = "none" /\ st.prot_tag = 1
    THEN AddSeq(st, m.cont_seq)
    ELSE st

\* lines 134-176, the body of the loop, m being Scan(line)
ProcessLine(st, m) ==
    IF m.noise THEN st
    ELSE ContBranch(EndBranch(IdOrStartBranch(st, m), m), m)

(***************************************************************************)
(* The input lines the loop is fed, built from their parts.                *)
(***************************************************************************)
TranscriptLine(id) == "c\ta\ttranscript\t1\t9\t.\t+\t.\tID=" \o id \o ";Parent=g"
StartLine(data) == Prefix \o data
ContLine(data) == HashSpace \o data
EndLine(data) == HashSpace \o data \o "]"
SingleLine(data) == Prefix \o data \o "]"

GoodIds == {"g1.t1", "g2.t1", "g10.t1"}
BadIds == {"tx"}
InputIds == GoodIds \cup BadIds
StartData == {"MSEK"}
ContData == {"QRST", "QR"}
EndData == {"UVWY"}
SingleData == {"MSE"}

\* one line for each noise pattern, as BRAKER prints them, and lines that
\* carry a noise pattern together with a sequence marker
NoiseTexts ==
    { "# Evidence for and against this transcript:",
      "# % of transcript supported by hints (any source): 100",
      "# CDS exons: 2/2",
      "# CDS introns: 1/1",
      "# 5'UTR exons and introns: 0/0",
      "# 3'UTR exons and introns: 0/0",
      "# hint groups fully obeyed: 0",
      "# incompatible hint groups: 0",
      "#      E:   1 ",
      "#     RM:   2 ",
      "# CDS exons: [2/2]",
      Prefix \o "M#     RM:]" }

OtherTexts ==
    { "",
      "# start gene g1",
      "c\ta\tgene\t1\t9\t.\t+\t.\tID=g1",
      "# QRST \t" }

LineTexts ==
    { TranscriptLine(id) : id \in InputIds }
      \cup { StartLine(x) : x \in StartData } \cup { ContLine(x) : x \in ContData }
      \cup { EndLine(x) : x \in EndData } \cup { SingleLine(x) : x \in SingleData }
      \cup NoiseTexts \cup OtherTexts

\* a raw line of the file is its text and the line terminator
RawLine(text) == text \o "\n"

Kind(text) ==
    CASE text \in NoiseTexts -> "noise"
      [] text \in { TranscriptLine(id) : id \in InputIds } -> "tid"
      [] text \in { StartLine(x) : x \in StartData } -> "start"
      [] text \in { ContLine(x) : x \in ContData } -> "cont"
      [] text \in { EndLine(x) : x \in EndData } -> "end"
      [] text \in { SingleLine(x) : x \in SingleData } -> "single"
      [] OTHER -> "other"

IdOf(text) == CHOOSE id \in InputIds : text = TranscriptLine(id)
DataOf(text) ==
    CHOOSE x \in StartData \cup ContData \cup EndData \cup SingleData :
        text \in {StartLine(x), ContLine(x), EndLine(x), SingleLine(x)}

\* every input line with what import_file and the scan make of it, and its
\* place in the structure of the input
Inputs ==
    { [ raw |-> RawLine(text),
        scan |-> Scan(ImportLine(RawLine(text))),
        kind |-> Kind(text),
        id |-> IF Kind(text) = "tid" THEN IdOf(text) ELSE "",
        data |-> IF Kind(text) \in {"start", "cont", "end", "single"} THEN DataOf(text) ELSE "" ]
      : text \in LineTexts }

\* lines with a marker inside their data: an end line with "]" and "# "
\* inside, a continuation line with both, a start line with "]" inside
OddEndData == {"U]V# W"}
OddContData == {"Q]# R"}
OddStartData == {"MS]EK"}

OddInputs ==
    { [ raw |-> RawLine(EndLine(x)), scan |-> Scan(ImportLine(RawLine(EndLine(x)))),
        kind |-> "end", id |-> "", data |-> x ] : x \in OddEndData }
      \cup { [ raw |-> RawLine(ContLine(x)), scan |-> Scan(ImportLine(RawLine(ContLine(x)))),
               kind |-> "cont", id |-> "", data |-> x ] : x \in OddContData }
      \cup { [ raw |-> RawLine(StartLine(x)), scan |-> Scan(ImportLine(RawLine(StartLine(x)))),
               kind |-> "start", id |-> "", data |-> x ] : x \in OddStartData }

AllInputs == Inputs \cup OddInputs

(***************************************************************************)
(* parse_augustus as a state machine.                                      *)
(***************************************************************************)
NoFile == [exists |-> FALSE, lines |-> <<>>]
StaleFile == [exists |-> TRUE, lines |-> <<">old", "MMM">>]

ToolIdle ==
    /\ tpc = "off"
    /\ fs = <<>>
    /\ events = <<>>
    /\ trace = <<>>
    /\ nInv = 0
    /\ inv = ""

GhostInit ==
    /\ gPhase = "none"
    /\ gId = ""
    /\ gBase = ""
    /\ gData = ""
    /\ gCont = 0
    /\ gBlocks = {}
    /\ gIds = {}
    /\ gWellFormed = TRUE
    /\ gOnlyNoise = TRUE
    /\ gOpen = FALSE

\* lines 124-133: the file is read, the flag is 0, the mapping empty
Init ==
    /\ pc = "parse"
    /\ prot_tag = 0
    /\ transcript_id = Unbound
    /\ d_seq = <<>>
    /\ nRead = 0
    /\ lastRaw = ""
    /\ lastLine = ""
    /\ lastAppended = <<>>
    /\ error = "none"
    /\ faa \in {NoFile, StaleFile}
    /\ d_seq_sorted = <<>>
    /\ wIdx = 0
    /\ wI = 0
    /\ GhostInit
    /\ ToolIdle

\* what the consumed line is in the structure of the input
Bookkeep(in) ==
    /\ gIds' = IF in.kind = "tid" THEN gIds \cup {in.id} ELSE gIds
    /\ gId' = IF in.kind = "tid" THEN in.id ELSE gId
    /\ gPhase' =
         CASE in.kind = "tid" -> "id"
           [] in.kind = "start" -> "open"
           [] in.kind = "single" -> "closed"
           [] in.kind = "end" -> IF gPhase = "open" THEN "closed" ELSE "broken"
           [] in.kind = "other" -> IF gPhase = "open" THEN "broken" ELSE gPhase
           [] OTHER -> gPhase
    /\ gBase' = IF in.kind \in {"start", "single"} THEN Lookup(d_seq, gId) ELSE gBase
    /\ gData' =
         CASE in.kind \in {"start", "single"} -> in.data
           [] in.kind \in {"cont", "end"} /\ gPhase = "open" -> gData \o in.data
           [] OTHER -> gData
    /\ gCont' =
         CASE in.kind \in {"start", "single"} -> 0
           [] in.kind = "cont" /\ gPhase = "open" -> gCont + 1
           [] OTHER -> gCont
    /\ gBlocks' = IF in.kind \in {"start", "single"} THEN gBlocks \cup {gId} ELSE gBlocks
    /\ gWellFormed' =
         /\ gWellFormed
         /\ CASE in.kind = "tid" -> gPhase # "open"
              [] in.kind \in {"start", "single"} -> gPhase = "id"
              [] in.kind = "end" -> gPhase = "open"
              [] in.kind = "other" -> gPhase # "open"
              [] OTHER -> TRUE
    /\ gOnlyNoise' = (gOnlyNoise /\ in.kind = "noise")
    /\ gOpen' =
         CASE in.kind = "start" -> TRUE
           [] in.kind \in {"end", "single"} -> FALSE
           [] OTHER -> gOpen

\* one iteration of `for line in augustus_gff3`, the file holding at most
\* maxLines lines, each one of inputs
ParseFrom(inputs, maxLines) ==
    /\ pc = "parse"
    /\ nRead < maxLines
    /\ \E in \in inputs :
         \E out \in { ProcessLine([prot_tag |-> prot_tag, transcript_id |-> transcript_id,
                                   d_seq |-> d_seq, appended |-> <<>>, error |-> "none"],
                                  in.scan) } :
             /\ lastRaw' = in.raw
             /\ lastLine' = in.scan.line
             /\ nRead' = nRead + 1
             /\ prot_tag' = out.prot_tag
             /\ transcript_id' = out.transcript_id
             /\ d_seq' = out.d_seq
             /\ lastAppended' = out.appended
             /\ error' = out.error
             /\ pc' = IF out.error = "none" THEN "parse" ELSE "failed"
             /\ Bookkeep(in)
    /\ UNCHANGED <<wvars, tvars>>

ParseLine == ParseFrom(Inputs, MaxLines)

\* the line sequence is exhausted
EndOfInput ==
    /\ pc = "parse"
    /\ pc' = "open"
    /\ lastRaw' = ""
    /\ lastLine' = ""
    /\ lastAppended' = <<>>
    /\ UNCHANGED <<prot_tag, transcript_id, d_seq, nRead, error, wvars, gvars, tvars>>

(***************************************************************************)
(* The FASTA writer, lines 178-192.                                        *)
(***************************************************************************)
WrapWidth == 60

\* start positions of a match of r'g(\d+)\.t\d+$' in id, with the position of its "."
KeyMatches(id) ==
    { m \in (1..Len(id)) \X (1..Len(id)) :
        /\ CharAt(id, m[1]) = "g"
        /\ m[1] + 1 < m[2]
        /\ AllDigits(id, m[1] + 1, m[2] - 1)
        /\ CharAt(id, m[2]) = "."
        /\ m[2] + 2 <= Len(id)
        /\ CharAt(id, m[2] + 1) = "t"
        /\ AllDigits(id, m[2] + 2, Len(id)) }

\* re.search(r'g(\d+)\.t\d+$', id) is not None
HasKeyPattern(id) == KeyMatches(id) # {}

\* SortKey that captures one digit only, as g(\d) would
SortKeyFirstDigit(id) ==
    LET m == CHOOSE x \in KeyMatches(id) : \A y \in KeyMatches(id) : x[1] <= y[1]
    IN  ParseInt(SubSeq(id, m[1] + 1, m[1] + 1))

\* int(re.search(r'g(\d+)\.t\d+$', id).group(1)), of the leftmost match
SortKey(id) ==
    LET m == CHOOSE x \in KeyMatches(id) : \A y \in KeyMatches(id) : x[1] <= y[1]
    IN  ParseInt(SubSeq(id, m[1] + 1, m[2] - 1))

\* x goes behind every item whose key is not greater: the sort is stable
InsertByKey(sorted, x) ==
    LET n == Cardinality({ i \in 1..Len(sorted) : SortKey(sorted[i].id) <= SortKey(x.id) })
    IN  SubSeq(sorted, 1, n) \o <<x>> \o SubSeq(sorted, n + 1, Len(sorted))

RECURSIVE SortedItems(_)
\* sorted(d_seq.items(), key=...), every key being computable
SortedItems(items) ==
    IF items = <<>> THEN <<>>
    ELSE InsertByKey(SortedItems(SubSeq(items, 1, Len(items) - 1)), items[Len(items)])

\* the key function raises on an identifier without the pattern
SortRaises(items) == \E i \in 1..Len(items) : ~HasKeyPattern(items[i].id)

Min(a, b) == IF a <= b THEN a ELSE b

\* prot_seq[i:i + 60]
Row(prot_seq, i) == SubSeq(prot_seq, i + 1, Min(i + WrapWidth, Len(prot_seq)))

\* MoreRows that stops before a last, shorter row
MoreRowsFullOnly(i, prot_seq) == i + WrapWidth <= Len(prot_seq)

\* while i < len(prot_seq)
MoreRows(i, prot_seq) == i < Len(prot_seq)

Written(f, text) == [f EXCEPT !.lines = Append(f.lines, text)]

\* OpenOut that may also open the file while the loop is still reading
OpenOutEarly ==
    /\ pc \in {"parse", "open"}
    /\ faa' = [exists |-> TRUE, lines |-> <<>>]
    /\ pc' = IF pc = "open" THEN "sort" ELSE pc
    /\ UNCHANGED <<prot_tag, transcript_id, d_seq, nRead, lastRaw, lastLine, lastAppended, error,
                   d_seq_sorted, wIdx, wI, gvars, tvars>>

\* lines 179-180: open(outfile, "w") creates or truncates the file
OpenOut ==
    /\ pc = "open"
    /\ faa' = [exists |-> TRUE, lines |-> <<>>]
    /\ pc' = "sort"
    /\ UNCHANGED <<prot_tag, transcript_id, d_seq, nRead, lastRaw, lastLine, lastAppended, error,
                   d_seq_sorted, wIdx, wI, gvars, tvars>>

\* SortItems that drops the identifiers without the pattern instead of raising
SortItemsSkipping ==
    /\ pc = "sort"
    /\ d_seq_sorted' = SortedItems(SelectSeq(d_seq, LAMBDA e : HasKeyPattern(e.id)))
    /\ wIdx' = 1
    /\ pc' = "write"
    /\ UNCHANGED <<prot_tag, transcript_id, d_seq, nRead, lastRaw, lastLine, lastAppended, error,
                   faa, wI, gvars, tvars>>

\* lines 181-184
SortItems ==
    /\ pc = "sort"
    /\ IF SortRaises(d_seq)
       THEN /\ error' = "AttributeError"
            /\ pc' = "failed"
            /\ UNCHANGED <<d_seq_sorted, wIdx>>
       ELSE /\ d_seq_sorted' = SortedItems(d_seq)
            /\ wIdx' = 1
            /\ pc' = "write"
            /\ UNCHANGED error
    /\ UNCHANGED <<prot_tag, transcript_id, d_seq, nRead, lastRaw, lastLine, lastAppended,
                   faa, wI, gvars, tvars>>

\* lines 185-188: the next item's header
WriteHeader ==
    /\ pc = "write"
    /\ wIdx <= Len(d_seq_sorted)
    /\ faa' = Written(faa, ">" \o d_seq_sorted[wIdx].id)
    /\ wI' = 0
    /\ pc' = "rows"
    /\ UNCHANGED <<prot_tag, transcript_id, d_seq, nRead, lastRaw, lastLine, lastAppended, error,
                   d_seq_sorted, wIdx, gvars, tvars>>

\* lines 189-192: one row
WriteRow ==
    /\ pc = "rows"
    /\ MoreRows(wI, d_seq_sorted[wIdx].seq)
    /\ faa' = Written(faa, Row(d_seq_sorted[wIdx].seq, wI))
    /\ wI' = wI + WrapWidth
    /\ UNCHANGED <<pc, prot_tag, transcript_id, d_seq, nRead, lastRaw, lastLine, lastAppended, error,
                   d_seq_sorted, wIdx, gvars, tvars>>

\* the row loop ends, on to the next item
NextEntry ==
    /\ pc = "rows"
    /\ ~MoreRows(wI, d_seq_sorted[wIdx].seq)
    /\ wIdx' = wIdx + 1
    /\ pc' = "write"
    /\ UNCHANGED <<prot_tag, transcript_id, d_seq, nRead, lastRaw, lastLine, lastAppended, error,
                   faa, d_seq_sorted, wI, gvars, tvars>>

\* the item loop ends, parse_augustus returns
Finish ==
    /\ pc = "write"
    /\ wIdx > Len(d_seq_sorted)
    /\ pc' = "done"
    /\ UNCHANGED <<prot_tag, transcript_id, d_seq, nRead, lastRaw, lastLine, lastAppended, error,
                   wvars, gvars, tvars>>

Next == ParseLine \/ EndOfInput \/ OpenOut \/ SortItems \/ WriteHeader \/ WriteRow
          \/ NextEntry \/ Finish

Spec == Init /\ [][Next]_vars

(***************************************************************************)
(* parse_augustus over shorter files that may also hold the lines with     *)
(* markers inside their data.                                              *)
(***************************************************************************)
ParseAnyLine == ParseFrom(AllInputs, MaxOddLines)

NextLines == ParseAnyLine \/ EndOfInput \/ OpenOut \/ SortItems \/ WriteHeader \/ WriteRow
               \/ NextEntry \/ Finish

SpecLines == Init /\ [][NextLines]_vars

(***************************************************************************)
(* The writer alone, from every mapping of at most MaxEntries entries with *)
(* sequences of up to MaxRows full rows.                                   *)
(***************************************************************************)
WriterIds == {"g1.t1", "g1.t2", "g2.t1", "g10.t1", "tx"}

RECURSIVE Residues(_)
\* a sequence of n residues that does not repeat with period WrapWidth
Residues(n) ==
    IF n <= 7 THEN SubSeq("MKVLAGT", 1, n)
    ELSE "MKVLAGT" \o Residues(n - 7)

\* the sequence lengths tried: 0, 20, 60, 80, ..., MaxRows * 60
NumLens == 2 * MaxRows + 1
LenAt(k) == IF k % 2 = 1 THEN ((k - 1) \div 2) * WrapWidth ELSE ((k \div 2) - 1) * WrapWidth + 20

IdRank(id) ==
    CASE id = "g1.t1" -> 0 [] id = "g1.t2" -> 1 [] id = "g2.t1" -> 2
      [] id = "g10.t1" -> 3 [] id = "tx" -> 4

\* the sequence an identifier has in the mappings of one shift
SeqOf(id, shift) == Residues(LenAt(((IdRank(id) + shift) % NumLens) + 1))

IdOrders ==
    UNION { { o \in [1..n -> WriterIds] : \A i, j \in 1..n : i # j => o[i] # o[j] }
            : n \in 0..MaxEntries }

Mappings ==
    { [i \in 1..Len(o) |-> [id |-> o[i], seq |-> SeqOf(o[i], shift)]]
      : o \in IdOrders, shift \in 0..(NumLens - 1) }

InitWriter ==
    /\ pc = "open"
    /\ prot_tag = 0
    /\ d_seq \in Mappings
    /\ transcript_id = IF d_seq = <<>> THEN Unbound ELSE d_seq[Len(d_seq)].id
    /\ nRead = 0
    /\ lastRaw = ""
    /\ lastLine = ""
    /\ lastAppended = <<>>
    /\ error = "none"
    /\ faa \in {NoFile, StaleFile}
    /\ d_seq_sorted = <<>>
    /\ wIdx = 0
    /\ wI = 0
    /\ GhostInit
    /\ ToolIdle

NextWriter == OpenOut \/ SortItems \/ WriteHeader \/ WriteRow \/ NextEntry \/ Finish

SpecWriter == InitWriter /\ [][NextWriter]_vars

(***************************************************************************)
(* The drivers and the tool invoker steps over a file system.  A path is   *)
(* "absent", "empty" (zero bytes) or "nonempty".  masked, query and db are *)
(* the inputs; gff3, idx (db_fasta.*phr) and blastp the steps' artifacts.  *)
(***************************************************************************)
Artifact(step) ==
    CASE step = "augustus" -> "gff3" [] step = "makeblastdb" -> "idx" [] step = "blastp" -> "blastp"

\* run_augustus.py line 106: not glob(augustus_output)
AugustusShouldRun(st) == st = "absent"

\* run_blastp.py line 83: not glob(blast_index_file)
MakeblastdbShouldRun(st) == st = "absent"

\* BlastpShouldRun without the zero-size test
BlastpShouldRunIfAbsent(st) == st = "absent"

\* run_blastp.py line 102: not glob(blastp_output) or os.stat(blastp_output)[6] == 0
BlastpShouldRun(st) == st = "absent" \/ st = "empty"

\* what an external command may leave at its output path: nothing new, a
\* zero-byte file or a file with content; it removes nothing, and without
\* its input it produces no content
Outcomes(before, inputsPresent) ==
    { st \in {"absent", "empty", "nonempty"} :
        /\ before # "absent" => st # "absent"
        /\ ~inputsPresent => st # "nonempty" }

Ev(kind, step, msg) == [inv |-> nInv, kind |-> kind, step |-> step, msg |-> msg]

Checked(step, before, ran, noted, after) ==
    [inv |-> nInv, step |-> step, before |-> before, ran |-> ran, noted |-> noted, after |-> after]

InitTool ==
    /\ pc = "off"
    /\ prot_tag = 0
    /\ transcript_id = Unbound
    /\ d_seq = <<>>
    /\ nRead = 0
    /\ lastRaw = ""
    /\ lastLine = ""
    /\ lastAppended = <<>>
    /\ error = "none"
    /\ faa = NoFile
    /\ d_seq_sorted = <<>>
    /\ wIdx = 0
    /\ wI = 0
    /\ GhostInit
    /\ tpc = "idle"
    /\ \E m, q, d \in {"absent", "nonempty"} :
         fs = [masked |-> m, query |-> q, db |-> d,
               gff3 |-> "absent", faa |-> "absent", idx |-> "absent", blastp |-> "absent"]
    /\ events = <<>>
    /\ trace = <<>>
    /\ nInv = 0
    /\ inv = ""

\* run_augustus.py main, lines 60-71: arguments, directories, logging
StartAugustus ==
    /\ tpc = "idle"
    /\ nInv < MaxInvocations
    /\ nInv' = nInv + 1
    /\ inv' = "augustus"
    /\ tpc' = "run_augustus"
    /\ UNCHANGED <<fs, events, trace, pvars, wvars, gvars>>

\* run_augustus, lines 95-119
RunAugustus ==
    /\ tpc = "run_augustus"
    /\ IF AugustusShouldRun(fs.gff3)
       THEN \E after \in Outcomes(fs.gff3, fs.masked # "absent") :
              /\ fs' = [fs EXCEPT !.gff3 = after]
              /\ events' = events \o << Ev("time", "augustus", "START: Augustus"),
                                        Ev("txt", "augustus", "[Run]"),
                                        Ev("exec", "augustus", "augustus"),
                                        Ev("time", "augustus", "DONE : Augustus") >>
              /\ trace' = Append(trace, Checked("augustus", fs.gff3, TRUE, FALSE, after))
       ELSE /\ events' = events \o << Ev("time", "augustus", "START: Augustus"),
                                      Ev("txt", "augustus", "[Note] already finished"),
                                      Ev("time", "augustus", "DONE : Augustus") >>
            /\ trace' = Append(trace, Checked("augustus", fs.gff3, FALSE, TRUE, fs.gff3))
            /\ UNCHANGED fs
    /\ tpc' = "parse_augustus"
    /\ UNCHANGED <<nInv, inv, pvars, wvars, gvars>>

\* parse_augustus, lines 122-192, as the drivers see it: import_file raises
\* without the annotation file; the loop may raise before the output is
\* opened; the sort may raise after it was truncated; else the file is written
ParseAugustus ==
    /\ tpc = "parse_augustus"
    /\ \/ /\ fs.gff3 = "absent"
          /\ events' = Append(events, Ev("raise", "parse", "IOError"))
          /\ UNCHANGED fs
       \/ /\ fs.gff3 = "nonempty"
          /\ events' = Append(events, Ev("raise", "parse", "UnboundLocalError"))
          /\ UNCHANGED fs
       \/ /\ fs.gff3 = "nonempty"
          /\ events' = Append(events, Ev("raise", "parse", "AttributeError"))
          /\ fs' = [fs EXCEPT !.faa = "empty"]
       \/ /\ fs.gff3 # "absent"
          /\ \E out \in IF fs.gff3 = "empty" THEN {"empty"} ELSE {"empty", "nonempty"} :
                fs' = [fs EXCEPT !.faa = out]
          /\ UNCHANGED events
    /\ tpc' = "idle"
    /\ inv' = ""
    /\ UNCHANGED <<trace, nInv, pvars, wvars, gvars>>

\* run_blastp.py main, lines 46-65
StartBlastp ==
    /\ tpc = "idle"
    /\ nInv < MaxInvocations
    /\ nInv' = nInv + 1
    /\ IF fs.query = "absent"
       THEN /\ events' = Append(events, [inv |-> nInv + 1, kind |-> "exit", step |-> "main",
                                         msg |-> "[ERROR] No such file"])
            /\ tpc' = "idle"
            /\ inv' = ""
       ELSE /\ events' = Append(events, [inv |-> nInv + 1, kind |-> "time", step |-> "main",
                                         msg |-> "START: BLASTp"])
            /\ tpc' = "makeblastdb"
            /\ inv' = "blastp"
    /\ UNCHANGED <<fs, trace, pvars, wvars, gvars>>

\* MakeblastdbStep that logs the command line once the command has returned
MakeblastdbStepLogsAfter ==
    /\ tpc = "makeblastdb"
    /\ IF MakeblastdbShouldRun(fs.idx)
       THEN \E after \in Outcomes(fs.idx, fs.db # "absent") :
              /\ fs' = [fs EXCEPT !.idx = after]
              /\ events' = events \o << Ev("exec", "makeblastdb", "makeblastdb"),
                                        Ev("txt", "makeblastdb", "[Run]") >>
              /\ trace' = Append(trace, Checked("makeblastdb", fs.idx, TRUE, FALSE, after))
       ELSE /\ events' = Append(events, Ev("txt", "makeblastdb", "[Note] already finished"))
            /\ trace' = Append(trace, Checked("makeblastdb", fs.idx, FALSE, TRUE, fs.idx))
            /\ UNCHANGED fs
    /\ tpc' = "blastp"
    /\ UNCHANGED <<nInv, inv, pvars, wvars, gvars>>

\* run_blastp, lines 79-92: the index build
MakeblastdbStep ==
    /\ tpc = "makeblastdb"
    /\ IF MakeblastdbShouldRun(fs.idx)
       THEN \E after \in Outcomes(fs.idx, fs.db # "absent") :
              /\ fs' = [fs EXCEPT !.idx = after]
              /\ events' = events \o << Ev("txt", "makeblastdb", "[Run]"),
                                        Ev("exec", "makeblastdb", "makeblastdb") >>
              /\ trace' = Append(trace, Checked("makeblastdb", fs.idx, TRUE, FALSE, after))
       ELSE /\ events' = Append(events, Ev("txt", "makeblastdb", "[Note] already finished"))
            /\ trace' = Append(trace, Checked("makeblastdb", fs.idx, FALSE, TRUE, fs.idx))
            /\ UNCHANGED fs
    /\ tpc' = "blastp"
    /\ UNCHANGED <<nInv, inv, pvars, wvars, gvars>>

\* run_blastp, lines 98-111, the similarity search, and main's line 67
BlastpStep ==
    /\ tpc = "blastp"
    /\ IF BlastpShouldRun(fs.blastp)
       THEN \E after \in Outcomes(fs.blastp, fs.db # "absent" /\ fs.idx # "absent") :
              /\ fs' = [fs EXCEPT !.blastp = after]
              /\ events' = events \o << Ev("txt", "blastp", "[Run]"),
                                        Ev("exec", "blastp", "blastp"),
                                        Ev("time", "main", "DONE : BLASTp") >>
              /\ trace' = Append(trace, Checked("blastp", fs.blastp, TRUE, FALSE, after))
       ELSE /\ events' = Append(events, Ev("time", "main", "DONE : BLASTp"))
            /\ trace' = Append(trace, Checked("blastp", fs.blastp, FALSE, FALSE, fs.blastp))
            /\ UNCHANGED fs
    /\ tpc' = "idle"
    /\ inv' = ""
    /\ UNCHANGED <<nInv, pvars, wvars, gvars>>

NextTool == StartAugustus \/ RunAugustus \/ ParseAugustus \/ StartBlastp
              \/ MakeblastdbStep \/ BlastpStep

SpecTool == InitTool /\ [][NextTool]_vars

(***************************************************************************)
(* Properties of the line loop (Spec).                                     *)
(***************************************************************************)
NoiseRaw == { RawLine(text) : text \in NoiseTexts }

\* C1: processing one line appends to the accumulated sequences at most
\* once, whatever the parser state; a line that is both a sequence start
\* and ends with "]" appends its payload exactly once and leaves the
\* continuation flag 0.
C1_AppendOncePerLine ==
    /\ Len(lastAppended) <= 1
    /\ \A x \in SingleData :
         (lastRaw = RawLine(SingleLine(x)) /\ error = "none")
            => (lastAppended = <<x>> /\ prot_tag = 0)

\* the single-line block "# protein sequence = [MSE]" was processed with the
\* flag possibly set before, and MSE is what its transcript has
C1_Witness ==
    /\ lastRaw = RawLine("# protein sequence = [MSE]")
    /\ lastAppended = <<"MSE">>
    /\ prot_tag = 0
    /\ Lookup(d_seq, transcript_id) = "MSE"

\* C2: when a block of a start line, n >= 0 continuation lines and an end
\* line has just been closed, the sequence accumulated under the current
\* transcript identifier is what it was before the block followed by the
\* data of the block's lines in line order.
C2_BlockConcatenation ==
    (gPhase = "closed" /\ error = "none")
        => (transcript_id = gId /\ Lookup(d_seq, gId) = gBase \o gData)

\* the three-line block of the specification, under a fresh identifier
C2_Witness ==
    /\ gPhase = "closed"
    /\ gCont = 1
    /\ gBase = ""
    /\ lastRaw = RawLine("# UVWY]")
    /\ Lookup(d_seq, gId) = "MSEKQRSTUVWY"

IsHeader(l) == StartsWith(l, ">")
Headers(f) == SelectSeq(f.lines, IsHeader)
HeaderCount(f, id) == Cardinality({ i \in 1..Len(f.lines) : f.lines[i] = ">" \o id })

OneEntryPerBlock ==
    /\ Len(Headers(faa)) = Cardinality(gBlocks)
    /\ \A id \in gIds : HeaderCount(faa, id) = IF id \in gBlocks THEN 1 ELSE 0

\* C3 as stated: for every well-formed input the output has exactly one
\* header per transcript identifier with a sequence block and none for an
\* identifier without one.
C3_Original ==
    (pc \in {"done", "failed"} /\ gWellFormed) => (pc = "done" /\ OneEntryPerBlock)

\* C3 as amended: the same, for well-formed inputs whose identifiers with a
\* sequence block all end in g<digits>.t<digits>.
C3_OneEntryPerBlock ==
    (pc \in {"done", "failed"} /\ gWellFormed /\ gBlocks \subseteq GoodIds)
        => (pc = "done" /\ OneEntryPerBlock)

\* two transcripts with a block and one without, written out
C3_Witness ==
    /\ pc = "done"
    /\ gWellFormed
    /\ Cardinality(gBlocks) = 2
    /\ gIds \ gBlocks # {}
    /\ Len(Headers(faa)) = 2

\* C4: a line carrying a noise pattern leaves the continuation flag, the
\* current identifier and the mapping as they were and raises nothing, in
\* every state; an input of noise lines only leaves the mapping empty.
C4_NoiseFrame ==
    /\ [](gOnlyNoise => (d_seq = <<>> /\ prot_tag = 0 /\ transcript_id = Unbound))
    /\ [][(pc = "parse" /\ nRead' = nRead + 1 /\ lastRaw' \in NoiseRaw)
            => (/\ prot_tag' = prot_tag
                /\ transcript_id' = transcript_id
                /\ d_seq' = d_seq
                /\ pc' = "parse")]_vars

\* a noise line that ends with "]" was processed inside an open block
C4_Witness ==
    /\ lastRaw = RawLine("# CDS exons: [2/2]")
    /\ prot_tag = 1
    /\ gPhase = "open"
    /\ lastAppended = <<>>
    /\ d_seq # <<>>

(***************************************************************************)
(* Properties of the writer (SpecWriter).                                  *)
(***************************************************************************)
WellFormedIds == {"g1.t1", "g1.t2", "g2.t1", "g10.t1"}

GeneNumber(id) ==
    CASE id \in {"g1.t1", "g1.t2"} -> 1 [] id = "g2.t1" -> 2 [] id = "g10.t1" -> 10

HeaderId(l) == SubSeq(l, 2, Len(l))

\* C5: when every identifier ends in g<N>.t<M>, the headers come out in
\* ascending order of the integer N.
C5_NumericOrder ==
    (pc \in {"write", "rows", "done"} /\ Keys(d_seq) \subseteq WellFormedIds)
        => \A i \in 1..(Len(Headers(faa)) - 1) :
              GeneNumber(HeaderId(Headers(faa)[i])) <= GeneNumber(HeaderId(Headers(faa)[i + 1]))

\* g10, g2, g1 inserted in that order come out as g1, g2, g10
C5_Witness ==
    /\ pc = "done"
    /\ [i \in 1..Len(d_seq) |-> d_seq[i].id] = <<"g10.t1", "g2.t1", "g1.t1">>
    /\ Headers(faa) = <<">g1.t1", ">g2.t1", ">g10.t1">>

RECURSIVE Join(_)
Join(rows) == IF rows = <<>> THEN "" ELSE Head(rows) \o Join(Tail(rows))

HeaderIdx(f) == { i \in 1..Len(f.lines) : IsHeader(f.lines[i]) }

\* the lines after the header at h, up to the next header
BodyOf(f, h) ==
    LET stop == IF \E j \in HeaderIdx(f) : j > h
                THEN CHOOSE j \in HeaderIdx(f) : j > h /\ \A k \in HeaderIdx(f) : k > h => j <= k
                ELSE Len(f.lines) + 1
    IN  SubSeq(f.lines, h + 1, stop - 1)

WrappedAt60(body, seq) ==
    /\ Join(body) = seq
    /\ \A r \in 1..(Len(body) - 1) : Len(body[r]) = 60
    /\ Len(body) > 0 => Len(body[Len(body)]) \in 1..60
    /\ Len(seq) = 0 => body = <<>>

\* C6: every entry has its header, and the body lines after it join to the
\* accumulated sequence, all of 60 characters but the last, which has 1 to
\* 60; an empty sequence has no body line.
C6_WrapRoundTrip ==
    pc = "done"
        => /\ Cardinality(HeaderIdx(faa)) = Len(d_seq)
           /\ \A k \in 1..Len(d_seq) :
                \E h \in HeaderIdx(faa) :
                    /\ faa.lines[h] = ">" \o d_seq[k].id
                    /\ WrappedAt60(BodyOf(faa, h), d_seq[k].seq)

\* an 80-residue sequence written as a row of 60 and a row of 20, and an
\* empty one written as a bare header
C6_Witness ==
    /\ pc = "done"
    /\ \E h \in HeaderIdx(faa) :
         /\ Len(BodyOf(faa, h)) = 2
         /\ Len(BodyOf(faa, h)[1]) = 60
         /\ Len(BodyOf(faa, h)[2]) = 20
    /\ \E k \in 1..Len(d_seq) : d_seq[k].seq = ""
    /\ \E h \in HeaderIdx(faa) : BodyOf(faa, h) = <<>>

\* C9: with an identifier in the mapping that does not end in
\* g<digits>.t<digits>, the writer never gets past the sort: it ends with an
\* error and the file holds no header and no body line.
C9_MalformedIdFatal ==
    (Keys(d_seq) \ WellFormedIds # {} /\ pc \notin {"parse", "open"})
        => /\ pc \in {"sort", "failed"}
           /\ faa.lines = <<>>
           /\ pc = "failed" => error = "AttributeError"

\* the writer failed on a mapping that also holds well-formed identifiers
C9_Witness ==
    /\ pc = "failed"
    /\ error = "AttributeError"
    /\ Len(d_seq) = 3
    /\ d_seq[3].id = "tx"
    /\ d_seq[1].seq # ""
    /\ faa = [exists |-> TRUE, lines |-> <<>>]

(***************************************************************************)
(* Properties of the tool invoker and the drivers (SpecTool).              *)
(***************************************************************************)
Steps == {"augustus", "makeblastdb", "blastp"}

\* the artifact counts as not yet produced: absent, or for the similarity
\* search alone, zero bytes
NotProduced(step, st) == st = "absent" \/ (step = "blastp" /\ st = "empty")

ExecCount(step) ==
    Cardinality({ i \in 1..Len(events) : events[i].kind = "exec" /\ events[i].step = step })

RanCount(step) ==
    Cardinality({ i \in 1..Len(trace) : trace[i].step = step /\ trace[i].ran })

\* C7: a step executes its command exactly when its artifact is absent at
\* the existence check (for the similarity search: absent or zero bytes);
\* once an artifact exists with content its command is never executed again.
C7_RunIffAbsent ==
    /\ [](/\ \A i \in 1..Len(trace) :
               trace[i].ran <=> NotProduced(trace[i].step, trace[i].before)
          /\ \A step \in Steps : ExecCount(step) = RanCount(step))
    /\ [][\A step \in Steps :
            fs[Artifact(step)] = "nonempty"
                => (ExecCount(step)' = ExecCount(step) /\ fs'[Artifact(step)] = "nonempty")]_vars

\* the search re-ran over a zero-byte artifact and was skipped once it had
\* content, and the index build was skipped over a zero-byte artifact
C7_Witness ==
    /\ \E i, j \in 1..Len(trace) :
         /\ i < j
         /\ trace[i].step = "blastp" /\ trace[i].before = "empty" /\ trace[i].ran
         /\ trace[i].after = "nonempty"
         /\ trace[j].step = "blastp" /\ ~trace[j].ran
    /\ \E i \in 1..Len(trace) :
         trace[i].step = "makeblastdb" /\ trace[i].before = "empty" /\ ~trace[i].ran

NoteCount(step) ==
    Cardinality({ i \in 1..Len(events) :
                    /\ events[i].kind = "txt"
                    /\ events[i].step = step
                    /\ events[i].msg = "[Note] already finished" })

RunLineCount(step) ==
    Cardinality({ i \in 1..Len(events) :
                    events[i].kind = "txt" /\ events[i].step = step /\ events[i].msg = "[Run]" })

ChecksOf(step) == SelectSeq(trace, LAMBDA r : r.step = step)

\* C8: every step that finds its artifact present logs a skip note and does
\* nothing else; a step first run with the artifact absent and then met with
\* it present has one "[Run]" line and one skip note in the log.
C8_SkipNoteLogged ==
    /\ \A i \in 1..Len(trace) :
         ~NotProduced(trace[i].step, trace[i].before)
            => (trace[i].noted /\ ~trace[i].ran /\ trace[i].after = trace[i].before)
    /\ \A step \in Steps :
         (/\ Len(ChecksOf(step)) = 2
          /\ NotProduced(step, ChecksOf(step)[1].before)
          /\ ~NotProduced(step, ChecksOf(step)[2].before))
            => (RunLineCount(step) = 1 /\ NoteCount(step) = 1)

RequiredInputs(driver) ==
    CASE driver = "augustus" -> {"masked"}
      [] driver \in {"makeblastdb", "blastp"} -> {"query", "db"}

\* C10: no external command is executed in a run whose required input (the
\* masked assembly; the query or the database FASTA) does not exist.
C10_MissingInputStops ==
    \A i \in 1..Len(events) :
        events[i].kind = "exec"
            => \A path \in RequiredInputs(events[i].step) : fs[path] # "absent"

(***************************************************************************)
(* Properties of the line loop over any lines (SpecLines).                 *)
(***************************************************************************)
InputOfRaw(raw) == CHOOSE in \in AllInputs : in.raw = raw
KindOfRaw(raw) == IF raw = "" THEN "" ELSE InputOfRaw(raw).kind
DataOfRaw(raw) == InputOfRaw(raw).data

\* C11: a sequence-start or sequence-end line processed before any
\* transcript-id line does not abort the extractor: the parse continues and
\* the mapping has gained an entry for the line's payload.
C11_UnboundIdAccumulates ==
    (gIds = {} /\ KindOfRaw(lastRaw) \in {"start", "end", "single"})
        => (error = "none" /\ pc = "parse" /\ d_seq # <<>>)

\* the text of a raw line before its line terminator
BeforeTerminator(raw) ==
    IF Len(raw) > 0 /\ CharAt(raw, Len(raw)) = "\n" THEN SubSeq(raw, 1, Len(raw) - 1) ELSE raw

\* C12 as stated: the element import_file returns for a line is the line's
\* text before its terminator, trailing spaces and tabs included.
C12_Original == lastRaw # "" => lastLine = BeforeTerminator(lastRaw)

\* C12 as amended: the element is the line without its trailing whitespace:
\* a prefix of the line that does not end in whitespace, what was dropped
\* after it being whitespace only.
C12_TrailingWhitespaceStripped ==
    lastRaw # ""
        => /\ Len(lastLine) <= Len(lastRaw)
           /\ SubSeq(lastRaw, 1, Len(lastLine)) = lastLine
           /\ \A i \in (Len(lastLine) + 1)..Len(lastRaw) : CharAt(lastRaw, i) \in Whitespace
           /\ lastLine # "" => CharAt(lastLine, Len(lastLine)) \notin Whitespace

\* a continuation line with a space and a tab before its terminator came in
\* without them and was appended so
C12_Witness ==
    /\ lastRaw = "# QRST \t\n"
    /\ lastLine = "# QRST"
    /\ lastAppended = <<"QRST">>

\* C13: after every processed line the continuation flag is 1 exactly when
\* a sequence-start line that is not noise has been processed and no line
\* that is not noise and ends in "]" has been processed at or after the
\* most recent one.
C13_FlagIffOpenBlock == error = "none" => ((prot_tag = 1) <=> gOpen)

\* a block was opened and closed on one line, then the next one opened by a
\* start line that has a "]" inside its data
C13_Witness ==
    /\ lastRaw = RawLine("# protein sequence = [MS]EK")
    /\ error = "none"
    /\ prot_tag = 1
    /\ gOpen
    /\ Lookup(d_seq, transcript_id) = "MSEMS]EK"

\* C14: what a start, continuation or end line appends is its text without
\* the introducer prefix or the leading "# " and, for a line that ends the
\* block, without the one "]" at its end: a "]" or "# " inside the data is
\* appended with it.
C14_PayloadVerbatim ==
    (/\ error = "none"
     /\ KindOfRaw(lastRaw) \in {"start", "cont", "end", "single"}
     /\ lastAppended # <<>>)
        => lastAppended = <<DataOfRaw(lastRaw)>>

\* C15: a transcript-id line, also one processed while the continuation flag
\* is 1, only replaces the current transcript identifier: none of its text
\* is appended to an accumulated sequence.
C15_TranscriptLineAppendsNothing ==
    KindOfRaw(lastRaw) = "tid"
        => (transcript_id = InputOfRaw(lastRaw).id /\ lastAppended = <<>>)

\* C16: what a line appends goes to the entry of the identifier of the most
\* recent transcript-id line at or before it, which it extends at its end;
\* the sequences of all other identifiers are as they were, no other entry
\* appears, and a line that appends nothing or raises leaves the mapping
\* alone.
C16_AppendsToCurrentId ==
    [][(pc = "parse" /\ nRead' = nRead + 1)
          => IF error' = "none" /\ lastAppended' # <<>>
             THEN /\ gId' # ""
                  /\ Lookup(d_seq', gId') = Lookup(d_seq, gId') \o Join(lastAppended')
                  /\ \A id \in InputIds \ {gId'} : Lookup(d_seq', id) = Lookup(d_seq, id)
                  /\ Keys(d_seq') = Keys(d_seq) \cup {gId'}
             ELSE d_seq' = d_seq]_vars

\* the block after the second transcript-id line went to its identifier and
\* the entry of the first is as it was
C16_Witness ==
    /\ gId = "g2.t1"
    /\ lastAppended = <<"MSE">>
    /\ d_seq = << [id |-> "g1.t1", seq |-> "MSE"], [id |-> "g2.t1", seq |-> "MSE"] >>

\* C19: the output file is not touched while the loop reads lines, and when
\* the loop raises on a line the file is as it was before the run: absent,
\* or with its previous content.
C19_OutputUntouchedOnFailure ==
    /\ [][pc = "parse" => faa' = faa]_vars
    /\ []((pc = "parse" \/ error = "UnboundLocalError") => faa \in {NoFile, StaleFile})

\* the loop raised on its third line and the file of an earlier run is intact
C19_Witness ==
    /\ pc = "failed"
    /\ error = "UnboundLocalError"
    /\ nRead = 3
    /\ lastRaw = RawLine("# UVWY]")
    /\ faa = StaleFile

(***************************************************************************)
(* Properties of the writer (SpecWriter), continued.                       *)
(***************************************************************************)
\* the mappings that hold the same (identifier, sequence) pairs as d in any
\* insertion order
Reorderings(d) == { [i \in 1..Len(d) |-> d[p[i]]] : p \in Permutations(1..Len(d)) }

HeadersOf(items) == [i \in 1..Len(items) |-> ">" \o items[i].id]

\* C17: the order of the entries in the output depends on the set of
\* (identifier, sequence) pairs alone: the mapping with the same pairs in any
\* other insertion order gives the same headers in the same order, also
\* with several transcripts of one gene.
C17_InsertionOrderIrrelevant ==
    (pc = "done" /\ Keys(d_seq) \subseteq WellFormedIds)
        => \A other \in Reorderings(d_seq) : Headers(faa) = HeadersOf(SortedItems(other))

(***************************************************************************)
(* Properties of the tool invoker and the drivers (SpecTool), continued.   *)
(***************************************************************************)
IsStart(e) == e.kind = "time" /\ e.msg \in {"START: Augustus", "START: BLASTp"}
IsDone(e) == e.kind = "time" /\ e.msg \in {"DONE : Augustus", "DONE : BLASTp"}
IsRunLine(e) == e.kind = "txt" /\ e.msg = "[Run]"
IsExec(e) == e.kind = "exec"
IsStepEvent(e) == e.kind \in {"txt", "exec"}

\* the tool pipeline of invocation n is over
PipelineOver(n) == n < nInv \/ tpc \in {"idle", "parse_augustus"}

\* C18: in every invocation an executed command has its "[Run]" line right
\* before it and none after it; the START marker comes before and the DONE
\* marker after every "[Run]" line, execution and skip note of the
\* invocation; the search is checked only after the index build was.
C18_LogOrder ==
    /\ \A i \in 1..Len(events) :
         IsExec(events[i])
            => /\ i > 1
               /\ IsRunLine(events[i - 1])
               /\ events[i - 1].step = events[i].step
               /\ events[i - 1].inv = events[i].inv
    /\ \A i \in 1..Len(events) :
         IsRunLine(events[i])
            => /\ i < Len(events)
               /\ IsExec(events[i + 1])
               /\ events[i + 1].step = events[i].step
    /\ \A i \in 1..Len(events) :
         IsStepEvent(events[i])
            => /\ \E j \in 1..(i - 1) : IsStart(events[j]) /\ events[j].inv = events[i].inv
               /\ \A k \in 1..i : ~(IsDone(events[k]) /\ events[k].inv = events[i].inv)
               /\ PipelineOver(events[i].inv)
                    => \E k \in (i + 1)..Len(events) :
                          IsDone(events[k]) /\ events[k].inv = events[i].inv
    /\ \A i \in 1..Len(trace) :
         trace[i].step = "blastp"
            => \E j \in 1..(i - 1) : trace[j].step = "makeblastdb" /\ trace[j].inv = trace[i].inv
    /\ \A i, j \in 1..Len(events) :
         (/\ events[i].inv = events[j].inv
          /\ events[i].step = "makeblastdb"
          /\ events[j].step = "blastp")
            => i < j

\* a search invocation that skipped the index build with a note and then
\* ran the search, after one that ran both commands
C18_Witness ==
    \E i \in 1..(Len(events) - 4) :
        /\ IsStart(events[i])
        /\ events[i + 1] = [inv |-> events[i].inv, kind |-> "txt", step |-> "makeblastdb",
                             msg |-> "[Note] already finished"]
        /\ IsRunLine(events[i + 2]) /\ events[i + 2].step = "blastp"
        /\ IsExec(events[i + 3]) /\ events[i + 3].step = "blastp"
        /\ IsDone(events[i + 4])
        /\ \E j \in 1..(i - 1) : IsExec(events[j]) /\ events[j].step = "makeblastdb"

====
